---- MODULE Spec2Model ----
(***************************************************************************)
(* Document-scoped retrieval-augmented chat: the Express server            *)
(* (upload / chat routes), its vector-store helpers in both shipped        *)
(* flavours (Pinecone and Chroma), the text extractor, and the React chat  *)
(* client (ChatDashboard).                                                 *)
(*                                                                         *)
(* Strings are sequences of one-character strings, so that trim() and      *)
(* join() are computed rather than assumed.  Every await in a handler is   *)
(* one action: the action is the awaited call's outcome plus the           *)
(* synchronous code that follows it up to the next await or the response.  *)
(***************************************************************************)
EXTENDS Integers, Sequences, FiniteSets, TLC

\* ---------------------------------------------------------------- bounds
\* Total number of HTTP requests (uploads and chats) in one behaviour.
MaxReqs == 2
\* Scaled stand-ins for the splitter's chunkSize: 1000 / chunkOverlap: 200.
ChunkSize == 2
ChunkOverlap == 1

\* retrieveSimilarDocuments(query, namespace, k = 4)
k == 4

\* ------------------------------------------------------------- constants
\* multer fileFilter whitelist.
allowedMimes ==
  { "application/pdf", "text/plain",
    "application/vnd.openxmlformats-officedocument.wordprocessingml.document" }

\* MIME types a caller may declare.
Mimes == {"text/plain", "image/png"}

\* file.originalname values.
Names == {"a.txt"}

\* Contents of uploaded files, as the text an extractor finds in them.
FileTexts == { <<>>, <<" ">>, <<"a", " ", "b">> }

\* Chat message bodies a caller may send: empty, blank, a question.
MessageTexts == { <<>>, <<" ">>, <<"q">> }

\* The two vector-store modules the server can be wired to.
Variants == {"pinecone", "chroma"}

\* A request that carries no documentId / a client with no active document.
NoDoc == <<>>
\* A namespace no ingest ever created.
UnknownDoc == <<"doc", MaxReqs + 1>>

\* --------------------------------------------------------- string helpers
IsSpace(c) == c \in {" ", "\n", "\n\n"}

RECURSIVE trimStart(_)
trimStart(s) ==
  IF s = <<>> THEN <<>>
  ELSE IF IsSpace(Head(s)) THEN trimStart(Tail(s)) ELSE s

RECURSIVE trimEnd(_)
trimEnd(s) ==
  IF s = <<>> THEN <<>>
  ELSE IF IsSpace(s[Len(s)]) THEN trimEnd(SubSeq(s, 1, Len(s) - 1)) ELSE s

\* String.prototype.trim
trim(s) == trimEnd(trimStart(s))

\* JS falsiness of a string value ("" / undefined).
Falsy(s) == s = <<>>

\* Array.prototype.join('\n\n'): the separator is one blank-line token.
RECURSIVE join(_)
join(parts) ==
  IF parts = <<>> THEN <<>>
  ELSE IF Len(parts) = 1 THEN parts[1]
  ELSE parts[1] \o <<"\n\n">> \o join(Tail(parts))

Min(a, b) == IF a < b THEN a ELSE b

\* ----------------------------------------------------------------- chunker
Stride == IF ChunkSize > ChunkOverlap THEN ChunkSize - ChunkOverlap ELSE 1

RECURSIVE Windows(_, _)
Windows(text, from) ==
  IF from > Len(text) THEN <<>>
  ELSE LET to == Min(from + ChunkSize - 1, Len(text))
       IN  <<trim(SubSeq(text, from, to))>> \o
           (IF to >= Len(text) THEN <<>> ELSE Windows(text, from + Stride))

\* splitter.createDocuments([documentText]): overlapping windows, trimmed,
\* empty chunks dropped; metadata records the chunk's position.
createDocuments(text) ==
  LET chunks == SelectSeq(Windows(text, 1), LAMBDA c : c # <<>>)
  IN  [i \in 1..Len(chunks) |-> [pageContent |-> chunks[i], metadata |-> i]]

\* ------------------------------------------------------------------ state
VARIABLES
  variant,         \* which vector-store module the server is wired to
  now,             \* Date.now() as last read
  nextUuid,        \* number of uuidv4() values drawn so far, plus one
  disk,            \* uploads/ directory: path -> [text, writer]
  unlinking,       \* paths with an fs.unlink issued and not yet completed
  store,           \* Vector Namespace Store: namespace -> stored segments
  reqs,            \* every HTTP request so far, in arrival order
  messages,        \* client transcript
  input,           \* client text box
  loading,         \* client loading flag
  activeDocument   \* client: NoDoc, or <<documentId, originalName>>

serverVars == <<variant, now, nextUuid, disk, unlinking, store, reqs>>
clientVars == <<messages, input, loading, activeDocument>>
vars == <<variant, now, nextUuid, disk, unlinking, store, reqs,
          messages, input, loading, activeDocument>>

\* Every namespace a request can name.
DocIds == {<<"doc", n>> : n \in 1..(MaxReqs + 1)}

\* ------------------------------------------------------- request records
\* One record per HTTP request: its inputs, the handler's locals, and a log
\* of what happened (calls: provider calls made; fault: the external step
\* that failed, if any; unlinked: fs.unlink was issued; res: the response).
\* text and results are <<>> until the value exists and <<value>> after.
NewReq(kind, from) ==
  [ kind |-> kind, from |-> from, pc |-> "new",
    mimetype |-> "", originalname |-> "", path |-> <<>>,
    message |-> <<>>, documentId |-> NoDoc,
    text |-> <<>>, docs |-> <<>>, results |-> <<>>, calls |-> <<>>,
    fault |-> "", unlinked |-> FALSE, res |-> <<>> ]

\* res.status(status).json({...}); fields a body lacks keep their defaults.
Response(status, error) ==
  [ status |-> status, error |-> error, documentId |-> NoDoc,
    originalName |-> "", response |-> "", hasSources |-> FALSE,
    sourceDocuments |-> <<>> ]

\* The handler sends `body` and returns.
Respond(r, body) == [r EXCEPT !.pc = "done", !.res = <<body>>]

\* One call to an external provider, as the provider sees it.
Call(api, taskType, grounded, context) ==
  [ api |-> api, taskType |-> taskType, grounded |-> grounded,
    context |-> context ]

\* The `embeddings` object each module hands to the store.
\* Pinecone module: one shared instance, taskType RETRIEVAL_DOCUMENT.
\* Chroma module: a fresh instance per function.
IngestTaskType == "RETRIEVAL_DOCUMENT"
QueryTaskType ==
  IF variant = "pinecone" THEN "RETRIEVAL_DOCUMENT" ELSE "RETRIEVAL_QUERY"

Done(r) == r.pc \in {"done", "closed"}
Status(r) == r.res[1].status
Body(r) == r.res[1]

\* ------------------------------------------------------------------- Init
Init ==
  /\ variant \in Variants
  /\ now = 0
  /\ nextUuid = 1
  /\ disk = <<>>
  /\ unlinking = {}
  /\ store = [d \in DocIds |-> <<>>]
  /\ reqs = <<>>
  /\ messages = << [sender |-> "ai", text |-> "greeting", turn |-> 0,
                    hasSources |-> FALSE, sources |-> <<>>] >>
  /\ input = <<>>
  /\ loading = FALSE
  /\ activeDocument = NoDoc

\* ------------------------------------------------------- upload: multer
\* fileFilter: cb(null, true) iff the declared MIME type is whitelisted.
fileFilter(mimetype) == mimetype \in allowedMimes

\* Mutant of newDocumentId: one fixed namespace for every upload.
newDocumentId_Fixed(uuid) == <<"doc", 1>>

\* const documentId = `doc-${uuidv4()}`.  A version-4 UUID is taken to be
\* one never issued before; `uuid` numbers them in order of issue.
newDocumentId(uuid) == <<"doc", uuid>>

\* Date.now() at an arrival: the last reading again, or a later one.  Only
\* equality of readings matters, so the last reading is offered again only
\* if an upload was stamped with it.
DateNow ==
  {now + 1} \cup
  {t \in {now} : \E j \in 1..Len(reqs) : reqs[j].path # <<>> /\ reqs[j].path[1] = t}

\* diskStorage filename: `${Date.now()}-${file.originalname}` in uploads/.
filename(t, originalname) == <<t, originalname>>

\* POST /api/upload-document up to the first await, arriving when the clock
\* reads t (the clock never runs backwards).
\*  - a file the filter rejects: multer passes the Error to next(); the app
\*    registers no error middleware, so Express's default handler answers 500
\*    and nothing is written to disk;
\*  - no file: 400;
\*  - otherwise the file is on disk, a documentId is minted and
\*    extractTextFromFile is awaited.
UploadArrive(from, hasFile, mimetype, originalname, content, t) ==
  /\ Len(reqs) < MaxReqs
  /\ now' = t
  /\ LET i == Len(reqs) + 1
         r == NewReq("upload", from)
     IN  IF hasFile /\ ~fileFilter(mimetype)
         THEN /\ reqs' = Append(reqs, Respond([r EXCEPT !.mimetype = mimetype],
                                              Response(500, "InvalidFileType")))
              /\ UNCHANGED <<disk, nextUuid>>
         ELSE IF ~hasFile
         THEN /\ reqs' = Append(reqs, Respond(r, Response(400, "NoFile")))
              /\ UNCHANGED <<disk, nextUuid>>
         ELSE LET path == filename(t, originalname)
              IN  /\ disk' = [p \in DOMAIN disk \cup {path} |->
                                IF p = path THEN [text |-> content, writer |-> i]
                                ELSE disk[p]]
                  /\ nextUuid' = nextUuid + 1
                  /\ reqs' = Append(reqs,
                       [r EXCEPT !.pc = "extract", !.mimetype = mimetype,
                                 !.originalname = originalname, !.path = path,
                                 !.documentId = newDocumentId(nextUuid)])
  /\ UNCHANGED <<variant, unlinking, store>>

\* fs.unlink(filePath, cb): the removal is issued, the handler goes on.
Unlink(r) == [r EXCEPT !.unlinked = TRUE]

Replace(i, r) == [reqs EXCEPT ![i] = r]

\* ------------------------------------------------- upload: text extractor
\* extractTextFromFile(filePath, mimeType): the outcomes of reading and
\* parsing the file at filePath.  A missing file, an I/O error or a parser
\* error throws; an unsupported type throws before any read.
extractTextFromFile(filePath, mimeType) ==
  IF mimeType \notin allowedMimes
  THEN { [ok |-> FALSE, text |-> <<>>] }
  ELSE { [ok |-> FALSE, text |-> <<>>] } \cup
       (IF filePath \in DOMAIN disk
        THEN { [ok |-> TRUE, text |-> disk[filePath].text] } ELSE {})

\* Mutant of EmptyText: the test without the trim().
EmptyText_NoTrim(textContent) == Falsy(textContent)

\* The handler's test `!textContent || textContent.trim().length === 0`.
EmptyText(textContent) == Falsy(textContent) \/ Len(trim(textContent)) = 0

\* await extractTextFromFile(...) resolves or rejects; the handler then
\* rejects empty text with 400, or starts createAndStoreEmbeddings (split,
\* then await the store's fromDocuments).
UploadExtract(i) ==
  /\ i \in 1..Len(reqs)
  /\ reqs[i].kind = "upload" /\ reqs[i].pc = "extract"
  /\ \E o \in extractTextFromFile(reqs[i].path, reqs[i].mimetype) :
       LET r == reqs[i]
           x == [r EXCEPT !.text = <<o.text>>]
       IN  IF ~o.ok
           THEN /\ unlinking' = unlinking \cup {r.path}
                /\ reqs' = Replace(i, Respond(Unlink([r EXCEPT !.fault = "extraction"]),
                                              Response(500, "ProcessingFailed")))
           ELSE IF EmptyText(o.text)
           THEN /\ unlinking' = unlinking \cup {r.path}
                /\ reqs' = Replace(i, Respond(Unlink(x), Response(400, "EmptyText")))
           ELSE /\ unlinking' = unlinking
                /\ reqs' = Replace(i, [x EXCEPT !.pc = "store",
                                                !.docs = createDocuments(o.text)])
  /\ UNCHANGED <<variant, now, nextUuid, disk, store, messages, input,
                 loading, activeDocument>>

\* Mutant of fromDocuments: the promise may also resolve after only a prefix
\* of the documents was written (a missing await inside the store call).
fromDocuments_ResolvesEarly(docs) ==
  { [embedded |-> FALSE, written |-> 0, ok |-> FALSE] } \cup
  { [embedded |-> TRUE, written |-> n, ok |-> b] :
      n \in 0..Len(docs), b \in BOOLEAN }

\* PineconeStore.fromDocuments / Chroma.fromDocuments: the outcomes of
\* embedding `docs` and upserting them.  The promise resolves only when every
\* document has been embedded and written; it rejects if the embedding call
\* fails (nothing written) or if the upsert fails, which may leave any prefix
\* written (no rollback).
fromDocuments(docs) ==
  { [embedded |-> FALSE, written |-> 0, ok |-> FALSE] } \cup
  { [embedded |-> TRUE, written |-> n, ok |-> FALSE] : n \in 0..Len(docs) } \cup
  { [embedded |-> TRUE, written |-> Len(docs), ok |-> TRUE] }

\* The provider calls one fromDocuments outcome makes.
IngestCalls(o) ==
  <<Call("embedDocuments", IngestTaskType, FALSE, <<>>)>> \o
  (IF o.embedded THEN <<Call("upsert", "", FALSE, <<>>)>> ELSE <<>>)

\* await createAndStoreEmbeddings(textContent, documentId) resolves: 200 with
\* the documentId; rejects: the route's catch issues the unlink and sends 500.
UploadStore(i) ==
  /\ i \in 1..Len(reqs)
  /\ reqs[i].kind = "upload" /\ reqs[i].pc = "store"
  /\ \E o \in fromDocuments(reqs[i].docs) :
       LET r == [reqs[i] EXCEPT !.calls = @ \o IngestCalls(o),
                                 !.fault = IF o.ok THEN ""
                                           ELSE IF o.embedded THEN "store"
                                           ELSE "embedding"]
       IN  /\ store' = [store EXCEPT ![r.documentId] =
                          @ \o SubSeq(r.docs, 1, o.written)]
           /\ IF o.ok
              THEN /\ unlinking' = unlinking
                   /\ reqs' = Replace(i, Respond(r,
                        [Response(200, "") EXCEPT !.documentId = r.documentId,
                                                  !.originalName = r.originalname]))
              ELSE /\ unlinking' = unlinking \cup {r.path}
                   /\ reqs' = Replace(i, Respond(Unlink(r), Response(500, "ProcessingFailed")))
  /\ UNCHANGED <<variant, now, nextUuid, disk, messages, input, loading,
                 activeDocument>>

\* An issued fs.unlink completes: the file is removed if it is (still) there;
\* otherwise the callback only logs the error.
FsUnlinkDone(p) ==
  /\ p \in unlinking
  /\ unlinking' = unlinking \ {p}
  /\ disk' = [q \in DOMAIN disk \ {p} |-> disk[q]]
  /\ UNCHANGED <<variant, now, nextUuid, store, reqs, messages, input,
                 loading, activeDocument>>

\* ------------------------------------------------------------ chat route
\* The route's validation of req.body, before the try block.
\* Both servers reject an empty or blank message; the Chroma server also
\* requires a documentId.
ChatValidation(message, documentId) ==
  IF Falsy(message) \/ Falsy(trim(message)) THEN "EmptyMessage"
  ELSE IF variant = "chroma" /\ documentId = NoDoc THEN "DocIdRequired"
  ELSE "ok"

\* Mutant of Grounded: the retrieval branch is taken for every request.
Grounded_Always(documentId) == TRUE

\* `if (documentId)`: grounded mode iff the body carries a documentId.
Grounded(documentId) == documentId # NoDoc

\* POST /api/chat up to the first await: 400 on a validation failure;
\* with a documentId, retrieveSimilarDocuments is awaited; without one, generateContent is awaited on the plain
\* prompt.
ChatArrive(from, message, documentId) ==
  /\ Len(reqs) < MaxReqs
  /\ LET r == [NewReq("chat", from) EXCEPT !.message = message,
                                           !.documentId = documentId]
         v == ChatValidation(message, documentId)
     IN  reqs' = Append(reqs,
           IF v # "ok" THEN Respond(r, Response(400, v))
           ELSE IF Grounded(documentId) THEN [r EXCEPT !.pc = "retrieve"]
           ELSE [r EXCEPT !.pc = "generate"])
  /\ UNCHANGED <<variant, now, nextUuid, disk, unlinking, store>>

\* What retrieveSimilarDocuments does with an error of the embedding or the
\* store call: the Pinecone module logs and rethrows; the Chroma module logs
\* and returns [].
retrieveOnError == IF variant = "pinecone" THEN "throw" ELSE "empty"

\* context = relevantDocs.map((doc) => doc.pageContent).join('\n\n')
PromptContext(relevantDocs) ==
  join([j \in 1..Len(relevantDocs) |-> relevantDocs[j].pageContent])

\* Mutant of AfterRetrieve: no short-circuit on an empty context.
AfterRetrieve_NoShortCircuit(r0, relevantDocs) ==
  [r0 EXCEPT !.results = <<relevantDocs>>, !.pc = "generate"]

\* The route after `relevantDocs` is known: an empty context gives the canned
\* 200 reply with no sources; otherwise generateContent is awaited.
AfterRetrieve(r0, relevantDocs) ==
  LET context == PromptContext(relevantDocs)
      r == [r0 EXCEPT !.results = <<relevantDocs>>]
  IN  IF Falsy(context)
      THEN Respond(r, [Response(200, "") EXCEPT !.response = "canned",
                                                !.hasSources = TRUE,
                                                !.sourceDocuments = <<>>])
      ELSE [r EXCEPT !.pc = "generate"]

\* The route when retrieveSimilarDocuments failed inside.
RetrieveFailed(r) ==
  IF retrieveOnError = "throw"
  THEN Respond(r, Response(500, "ChatFailed"))
  ELSE AfterRetrieve(r, <<>>)

\* The segments stored under a namespace; a namespace the store has never
\* seen is empty.
Namespace(d) == IF d \in DOMAIN store THEN store[d] ELSE <<>>

Injective(f) == \A a, b \in DOMAIN f : f[a] = f[b] => a = b

\* similaritySearch(query, k): the k nearest stored segments of the
\* namespace, best first.  Which segments are nearest depends on the
\* embedding, so every ranking of every choice of min(k, n) segments is a
\* possible result.
similaritySearch(segments, kk) ==
  LET n == Len(segments)
      m == Min(kk, n)
  IN  { [j \in 1..m |-> segments[f[j]]] :
          f \in {g \in [1..m -> 1..n] : Injective(g)} }

\* await retrieveSimilarDocuments(message, documentId): similaritySearch
\* embeds the query and then queries the namespace; either call may fail.
ChatRetrieve(i) ==
  /\ i \in 1..Len(reqs)
  /\ reqs[i].kind = "chat" /\ reqs[i].pc = "retrieve"
  /\ LET e == [reqs[i] EXCEPT !.calls =
                  Append(@, Call("embedQuery", QueryTaskType, FALSE, <<>>))]
         q == [e EXCEPT !.calls = Append(@, Call("query", "", FALSE, <<>>))]
     IN  \/ reqs' = Replace(i, RetrieveFailed([e EXCEPT !.fault = "embedding"]))
         \/ reqs' = Replace(i, RetrieveFailed([q EXCEPT !.fault = "store"]))
         \/ \E relevantDocs \in similaritySearch(Namespace(q.documentId), k) :
              reqs' = Replace(i, AfterRetrieve(q, relevantDocs))
  /\ UNCHANGED <<variant, now, nextUuid, disk, unlinking, store, messages,
                 input, loading, activeDocument>>

\* Mutant of sourceDocuments: the sources are listed last-ranked first.
sourceDocuments_Reversed(relevantDocs) ==
  [j \in 1..Len(relevantDocs) |->
     [content |-> relevantDocs[Len(relevantDocs) + 1 - j].pageContent,
      metadata |-> relevantDocs[Len(relevantDocs) + 1 - j].metadata]]

\* relevantDocs.map(doc => ({content: doc.pageContent, metadata: doc.metadata}))
sourceDocuments(relevantDocs) ==
  [j \in 1..Len(relevantDocs) |->
     [content |-> relevantDocs[j].pageContent,
      metadata |-> relevantDocs[j].metadata]]

\* await generativeModel.generateContent(prompt) resolves: 200 with the
\* reply (and, in grounded mode, the sources); rejects: 500.
ChatGenerate(i) ==
  /\ i \in 1..Len(reqs)
  /\ reqs[i].kind = "chat" /\ reqs[i].pc = "generate"
  /\ \E ok \in BOOLEAN :
       LET grounded == Grounded(reqs[i].documentId)
           r == [reqs[i] EXCEPT !.calls =
                   Append(@, Call("generateContent", "", grounded,
                                  IF grounded THEN PromptContext(reqs[i].results[1])
                                  ELSE <<>>))]
       IN  reqs' = Replace(i,
             IF ~ok THEN Respond([r EXCEPT !.fault = "generation"],
                                 Response(500, "ChatFailed"))
             ELSE IF grounded
             THEN Respond(r, [Response(200, "") EXCEPT
                                !.response = "gemini",
                                !.hasSources = TRUE,
                                !.sourceDocuments = sourceDocuments(r.results[1])])
             ELSE Respond(r, [Response(200, "") EXCEPT !.response = "gemini"]))
  /\ UNCHANGED <<variant, now, nextUuid, disk, unlinking, store, messages,
                 input, loading, activeDocument>>

\* ----------------------------------------------------------- delete route
\* Mutant of deleteChromaCollection: the collection is dropped before true
\* is returned.
deleteChromaCollection_Removes(collectionName) ==
  { [success |-> TRUE,  store |-> [store EXCEPT ![collectionName] = <<>>]],
    [success |-> FALSE, store |-> store] }

\* deleteChromaCollection(collectionName): the possible outcomes, each with
\* the value returned and the store it leaves.  The function builds an
\* embeddings object and a Chroma handle and returns true without calling
\* the store; when a constructor throws, the catch returns false.
deleteChromaCollection(collectionName) ==
  { [success |-> TRUE,  store |-> store],
    [success |-> FALSE, store |-> store] }

\* DELETE /api/delete-document/:documentId.  The route only matches a
\* non-empty path segment, so the handler's 400 branch is never taken.
\* Pinecone server: acknowledges the request and does nothing else.
\* Chroma server: answers by the value of deleteChromaCollection.
DeleteDocument(from, documentId) ==
  /\ Len(reqs) < MaxReqs
  /\ documentId # NoDoc
  /\ LET r == [NewReq("delete", from) EXCEPT !.documentId = documentId]
     IN  IF variant = "pinecone"
         THEN /\ reqs' = Append(reqs,
                     Respond(r, [Response(200, "") EXCEPT
                                   !.response = "deleteReceived"]))
              /\ store' = store
         ELSE \E o \in deleteChromaCollection(documentId) :
                /\ store' = o.store
                /\ reqs' = Append(reqs,
                     IF o.success
                     THEN Respond(r, [Response(200, "") EXCEPT
                                        !.response = "deleted"])
                     ELSE Respond(r, Response(500, "DeleteFailedMightNotExist")))
  /\ UNCHANGED <<variant, now, nextUuid, disk, unlinking, messages, input,
                 loading, activeDocument>>

\* ------------------------------------------------ callers other than the UI
\* Any HTTP client may post an upload, with or without a file.
ApiUpload ==
  /\ \E hasFile \in BOOLEAN, mimetype \in Mimes, originalname \in Names,
        content \in FileTexts, t \in DateNow :
       UploadArrive("api", hasFile, mimetype, originalname, content, t)
  /\ UNCHANGED clientVars

\* Namespaces minted so far.
Minted == {<<"doc", n>> : n \in 1..(nextUuid - 1)}

\* Any HTTP client may post a chat body.
ApiChat ==
  /\ \E message \in MessageTexts,
        documentId \in {NoDoc, UnknownDoc} \cup Minted :
       ChatArrive("api", message, documentId)
  /\ UNCHANGED clientVars

\* Any HTTP client may ask for a namespace to be deleted; the chat client
\* never does.
ApiDelete ==
  /\ \E documentId \in {UnknownDoc} \cup Minted :
       DeleteDocument("api", documentId)

\* ------------------------------------------------------------ chat client
Msg(sender, text, turn) ==
  [ sender |-> sender, text |-> text, turn |-> turn,
    hasSources |-> FALSE, sources |-> <<>> ]

\* onChange of the text box; the box is disabled while loading.
ClientType(v) ==
  /\ ~loading
  /\ v # input
  /\ input' = v
  /\ UNCHANGED <<messages, loading, activeDocument>>
  /\ UNCHANGED serverVars

\* handleSendMessage up to its await (send button or Enter).
handleSendMessage ==
  /\ ~(Falsy(trim(input)) \/ loading)
  /\ messages' = Append(messages, Msg("user", "input", Len(reqs) + 1))
  /\ input' = <<>>
  /\ loading' = TRUE
  /\ ChatArrive("client", input,
                IF activeDocument # NoDoc THEN activeDocument[1] ELSE NoDoc)
  /\ UNCHANGED activeDocument

\* handleFileUpload up to its await: the hidden file input is never
\* disabled and the handler does not look at `loading`.  Two file choices of
\* one user are more than a millisecond apart, so the upload arrives at a
\* later clock reading than any upload before it.
handleFileUpload ==
  /\ \E mimetype \in Mimes, originalname \in Names, content \in FileTexts :
       UploadArrive("client", TRUE, mimetype, originalname, content, now + 1)
  /\ loading' = TRUE
  /\ UNCHANGED <<messages, input, activeDocument>>

\* Mutant of AxiosOk: every response is taken as a success (a client that
\* sets validateStatus to accept all).
AxiosOk_Always(r) == TRUE

\* axios resolves on a 2xx status and rejects otherwise.
AxiosOk(r) == Status(r) \in 200..299

\* response.data.sourceDocuments || []
SourcesOf(body) == IF body.hasSources THEN body.sourceDocuments ELSE <<>>

\* The rest of handleFileUpload once the response is in.
UploadSettled(i) ==
  /\ i \in 1..Len(reqs)
  /\ reqs[i].from = "client" /\ reqs[i].kind = "upload" /\ reqs[i].pc = "done"
  /\ IF AxiosOk(reqs[i])
     THEN /\ activeDocument' = <<Body(reqs[i]).documentId, Body(reqs[i]).originalName>>
          /\ messages' = Append(messages, Msg("ai", "uploaded", i))
     ELSE /\ activeDocument' = activeDocument
          /\ messages' = Append(messages, Msg("ai", "uploadFailed", i))
  /\ loading' = FALSE
  /\ reqs' = Replace(i, [reqs[i] EXCEPT !.pc = "closed"])
  /\ UNCHANGED <<variant, now, nextUuid, disk, unlinking, store, input>>

\* The rest of handleSendMessage once the response is in.
ChatSettled(i) ==
  /\ i \in 1..Len(reqs)
  /\ reqs[i].from = "client" /\ reqs[i].kind = "chat" /\ reqs[i].pc = "done"
  /\ IF AxiosOk(reqs[i])
     THEN messages' = Append(messages,
            [Msg("ai", Body(reqs[i]).response, i) EXCEPT
               !.hasSources = TRUE, !.sources = SourcesOf(Body(reqs[i]))])
     ELSE messages' = Append(messages, Msg("ai", "apology", i))
  /\ loading' = FALSE
  /\ reqs' = Replace(i, [reqs[i] EXCEPT !.pc = "closed"])
  /\ UNCHANGED <<variant, now, nextUuid, disk, unlinking, store, input,
                 activeDocument>>

\* handleClearDocument; the Clear button shows only with an active document.
\* The notice belongs to no request: its `turn` records how many requests
\* had been issued when the button was clicked.
handleClearDocument ==
  /\ activeDocument # NoDoc
  /\ activeDocument' = NoDoc
  /\ messages' = Append(messages, Msg("ai", "modeSwitch", Len(reqs)))
  /\ UNCHANGED <<input, loading>>
  /\ UNCHANGED serverVars

\* ------------------------------------------------------------------ Next
\* The server's own steps: every await of every request in progress.
ServerStep ==
  \/ \E i \in 1..MaxReqs : UploadExtract(i)
  \/ \E i \in 1..MaxReqs : UploadStore(i)
  \/ \E p \in unlinking : FsUnlinkDone(p)
  \/ \E i \in 1..MaxReqs : ChatRetrieve(i)
  \/ \E i \in 1..MaxReqs : ChatGenerate(i)

\* The chat client's event handlers and continuations.
ClientStep ==
  \/ \E v \in MessageTexts : ClientType(v)
  \/ handleSendMessage
  \/ handleFileUpload
  \/ \E i \in 1..MaxReqs : UploadSettled(i)
  \/ \E i \in 1..MaxReqs : ChatSettled(i)
  \/ handleClearDocument

\* The whole system: the server, one chat client, and other HTTP callers.
Next ==
  \/ ApiUpload
  \/ ApiChat
  \/ ApiDelete
  \/ ServerStep
  \/ ClientStep

Spec == Init /\ [][Next]_vars

\* The server under arbitrary HTTP callers (the chat client's requests are
\* among them); the client's own state stays as constructed.
NextServer ==
  \/ ApiUpload
  \/ ApiChat
  \/ ApiDelete
  \/ ServerStep

SpecServer == Init /\ [][NextServer]_vars

\* The chat client as the server's only caller.
NextClient ==
  \/ ServerStep
  \/ ClientStep

SpecClient == Init /\ [][NextClient]_vars

\* ================================================================ claims
Ix == 1..Len(reqs)

\* A string with no character other than blanks (the empty string included).
AllWhitespace(s) == \A j \in 1..Len(s) : s[j] = " "

HasCall(r, api) == \E c \in 1..Len(r.calls) : r.calls[c].api = api

\* C1 (as claimed): every completed upload that stored a temporary file has
\* had that file deleted, or its deletion issued, whichever way it completed
\* (200, 400 or 500): no completed ingest leaves its temporary file on disk.
C1_TempFileDeletedOnEveryPath ==
  \A i \in Ix :
    (reqs[i].kind = "upload" /\ Done(reqs[i]) /\ reqs[i].path # <<>>)
      => ~( /\ reqs[i].path \in DOMAIN disk
            /\ disk[reqs[i].path].writer = i
            /\ reqs[i].path \notin unlinking )

\* C2 (as claimed): the client never has more than one request (upload or
\* chat) whose response it has not yet handled.
C2_AtMostOneInFlight ==
  Cardinality({i \in Ix : reqs[i].from = "client" /\ reqs[i].pc # "closed"}) <= 1

\* C3: whenever an upload has been answered with a documentId, every segment
\* of that document's extracted text is stored under that namespace, and the
\* store call has been made.
C3_IdReturnedOnlyAfterAllStored ==
  \A i \in Ix :
    (reqs[i].kind = "upload" /\ Done(reqs[i]) /\ Body(reqs[i]).documentId # NoDoc)
      => /\ reqs[i].text # <<>>
         /\ createDocuments(reqs[i].text[1]) # <<>>
         /\ store[Body(reqs[i]).documentId] = createDocuments(reqs[i].text[1])
         /\ HasCall(reqs[i], "upsert")
         /\ Status(reqs[i]) = 200

\* C3 witness: an upload answered 200 with a documentId whose namespace holds
\* more than one segment.
C3_Witness ==
  \E i \in Ix :
    /\ reqs[i].kind = "upload" /\ Done(reqs[i])
    /\ Status(reqs[i]) = 200
    /\ Body(reqs[i]).documentId # NoDoc
    /\ Len(store[Body(reqs[i]).documentId]) > 1

\* The validation failures of C4.
Rejected(r) ==
  r.res # <<>> /\ Body(r).error \in {"EmptyMessage", "EmptyText", "InvalidFileType"}

C4_Inv ==
  \A i \in Ix :
    LET r == reqs[i]
    IN  /\ (r.kind = "chat" /\ AllWhitespace(r.message))
             => (Done(r) /\ Status(r) = 400 /\ r.calls = <<>>)
        /\ (r.kind = "upload" /\ r.text # <<>> /\ AllWhitespace(r.text[1]))
             => ( /\ Done(r) /\ Status(r) = 400 /\ r.calls = <<>>
                  /\ store[r.documentId] = <<>> )
        /\ (r.kind = "upload" /\ r.mimetype # "" /\ r.mimetype \notin allowedMimes)
             => ( /\ Done(r) /\ Status(r) \notin 200..299 /\ r.calls = <<>>
                  /\ r.documentId = NoDoc )

C4_Step ==
  \A i \in 1..Len(reqs') :
    ( /\ reqs'[i].pc = "done"
      /\ (i > Len(reqs) \/ reqs[i].pc # "done")
      /\ Rejected(reqs'[i]) )
      => store' = store

\* C4: a chat whose message is empty or blank, an upload whose extracted text
\* is empty or blank, and an upload of an unsupported MIME type are rejected
\* without any call to the embedding provider, the vector store or the
\* generation provider, and the step that rejects them leaves the store as
\* it was (no partition is created for the rejected upload).
C4_ValidationBeforeProviders == []C4_Inv /\ [][C4_Step]_vars

\* C4 witness: a blank chat message and an upload with blank text, both
\* rejected.
C4_Witness ==
  \E i, j \in Ix :
    /\ reqs[i].kind = "chat" /\ reqs[i].message = <<" ">> /\ Done(reqs[i])
    /\ reqs[j].kind = "upload" /\ reqs[j].text = << <<" ">> >> /\ Done(reqs[j])

\* C5 (as claimed): no file, unsupported type, empty text and empty message
\* are answered 400; a failure of extraction, embedding, the vector store or
\* generation is answered 500.
C5_StatusClassifiesCause ==
  \A i \in Ix :
    Done(reqs[i]) =>
      /\ (Body(reqs[i]).error \in {"NoFile", "InvalidFileType", "EmptyText", "EmptyMessage"}
            => Status(reqs[i]) = 400)
      /\ (reqs[i].fault # "" => Status(reqs[i]) = 500)

ProviderFaults == {"embedding", "store", "generation"}

CallCount(r, api) == Cardinality({c \in 1..Len(r.calls) : r.calls[c].api = api})

\* C6 (as claimed): a chat turn in which the embedding provider, the vector
\* store or the generation provider failed is answered 500, never 200, and
\* no provider call is made twice for one turn.
C6_ChatProviderFailureIs500 ==
  \A i \in Ix :
    (reqs[i].kind = "chat" /\ Done(reqs[i]))
      => /\ (reqs[i].fault \in ProviderFaults => Status(reqs[i]) = 500)
         /\ \A api \in {"embedQuery", "query", "generateContent"} :
              CallCount(reqs[i], api) <= 1

\* C7: a grounded chat turn whose retrieval returned no segment is answered
\* 200 with the canned reply and an empty source list, without any call to
\* the generation provider; and every generation call of a grounded turn
\* carries a non-empty context block.
C7_EmptyRetrievalIsCannedReply ==
  \A i \in Ix :
    LET r == reqs[i]
    IN  (r.kind = "chat" /\ r.documentId # NoDoc) =>
          /\ (r.results = << <<>> >>) =>
                ( /\ Done(r) /\ Status(r) = 200
                  /\ Body(r).response = "canned"
                  /\ Body(r).hasSources /\ Body(r).sourceDocuments = <<>>
                  /\ ~HasCall(r, "generateContent") )
          /\ \A c \in 1..Len(r.calls) :
                r.calls[c].api = "generateContent" => r.calls[c].context # <<>>

\* C7 witness: a grounded turn with an empty retrieval has been answered.
C7_Witness ==
  \E i \in Ix :
    /\ reqs[i].kind = "chat" /\ reqs[i].documentId # NoDoc
    /\ reqs[i].results = << <<>> >> /\ Done(reqs[i])

\* C8: a chat turn without a documentId makes no embedding and no vector
\* store call, its response carries no sourceDocuments, and the assistant
\* message the client appends for it has an empty source list.
C8_UngroundedHasNoSources ==
  \A i \in Ix :
    LET r == reqs[i]
    IN  (r.kind = "chat" /\ r.documentId = NoDoc) =>
          /\ \A c \in 1..Len(r.calls) : r.calls[c].api = "generateContent"
          /\ Done(r) => (~Body(r).hasSources /\ Body(r).sourceDocuments = <<>>)
          /\ \A j \in 1..Len(messages) :
                (messages[j].turn = i /\ messages[j].sender = "ai")
                  => messages[j].sources = <<>>

\* C8 witness: the client has appended the generated answer of an ungrounded
\* turn.
C8_Witness ==
  \E j \in 1..Len(messages) :
    /\ messages[j].sender = "ai" /\ messages[j].text = "gemini"
    /\ messages[j].turn \in Ix
    /\ reqs[messages[j].turn].documentId = NoDoc

\* The texts of `parts` with a blank line between neighbours, built from the
\* last part backwards.
RECURSIVE ConcatUpTo(_, _)
ConcatUpTo(parts, n) ==
  IF n = 0 THEN <<>>
  ELSE IF n = 1 THEN parts[1]
  ELSE ConcatUpTo(parts, n - 1) \o <<"\n\n">> \o parts[n]

\* C9: for a grounded turn whose retrieval returned segments, the context
\* block given to the generation provider is the segments' texts in rank
\* order separated by blank lines, and the sourceDocuments of the 200
\* response are exactly those segments in that order.
C9_SourcesFollowRankOrder ==
  \A i \in Ix :
    LET r == reqs[i]
    IN  (r.kind = "chat" /\ r.results # <<>> /\ r.results[1] # <<>>) =>
          LET rd == r.results[1]
          IN  /\ \A c \in 1..Len(r.calls) :
                    r.calls[c].api = "generateContent" =>
                      r.calls[c].context =
                        ConcatUpTo([j \in 1..Len(rd) |-> rd[j].pageContent], Len(rd))
              /\ (Done(r) /\ Status(r) = 200) =>
                    /\ Body(r).hasSources
                    /\ Len(Body(r).sourceDocuments) = Len(rd)
                    /\ \A j \in 1..Len(rd) :
                          /\ Body(r).sourceDocuments[j].content = rd[j].pageContent
                          /\ Body(r).sourceDocuments[j].metadata = rd[j].metadata

\* C9 witness: a 200 answer whose retrieval ranked a later segment of the
\* document before an earlier one.
C9_Witness ==
  \E i \in Ix :
    /\ reqs[i].kind = "chat" /\ Done(reqs[i]) /\ Status(reqs[i]) = 200
    /\ reqs[i].results # <<>> /\ Len(reqs[i].results[1]) > 1
    /\ reqs[i].results[1][1].metadata > reqs[i].results[1][2].metadata

\* C10 (as claimed): once the client has handled a failed chat turn, the
\* turn's user message is in the transcript and the entry right after it is
\* that turn's apology.
C10_FailedTurnTranscript ==
  \A i \in Ix :
    ( /\ reqs[i].kind = "chat" /\ reqs[i].from = "client"
      /\ reqs[i].pc = "closed" /\ ~AxiosOk(reqs[i]) )
      => \E j \in 1..(Len(messages) - 1) :
           /\ messages[j].sender = "user" /\ messages[j].turn = i
           /\ messages[j + 1].text = "apology" /\ messages[j + 1].turn = i

\* Transcript positions of the mode-switch notices, one per Clear.
Clears == {j \in 1..Len(messages) : messages[j].text = "modeSwitch"}

\* The client has started an upload among the requests numbered from..to.
ClientUploadIn(from, to) ==
  \E u \in from..to : reqs[u].from = "client" /\ reqs[u].kind = "upload"

\* C11 (as claimed): Clear makes no server call and appends one notice, and
\* after a Clear the client is in ungrounded mode until the user uploads
\* another document after that Clear: every chat request the client sent
\* after the Clear with no upload started in between carries no documentId,
\* and while no upload has been started since the last Clear there is no
\* Active Document for the next chat request to carry, whatever responses
\* of requests in flight at the Clear have arrived since.
C11_ClearedUntilNextUpload ==
  \A j \in Clears :
    LET c == messages[j].turn
    IN  /\ \A i \in (c + 1)..Len(reqs) :
              ( /\ reqs[i].from = "client" /\ reqs[i].kind = "chat"
                /\ ~ClientUploadIn(c + 1, i - 1) )
                => reqs[i].documentId = NoDoc
        /\ ~ClientUploadIn(c + 1, Len(reqs)) => activeDocument = NoDoc

\* The request that arrives in this step, if it is a delete request.
DeleteAnswered(i) ==
  /\ i = Len(reqs) + 1 /\ i = Len(reqs')
  /\ reqs'[i].kind = "delete" /\ Done(reqs'[i])

\* C12 (as claimed): a delete request is answered with success only if the
\* namespace it names holds no segment when the answer is sent, and a failed
\* delete is not answered in the words of a namespace that does not exist.
C12_DeleteSuccessMeansRemoved ==
  [][\A i \in 1..MaxReqs :
       DeleteAnswered(i) =>
         /\ Status(reqs'[i]) = 200 => store'[reqs'[i].documentId] = <<>>
         /\ Status(reqs'[i]) # 200 =>
              Body(reqs'[i]).error # "DeleteFailedMightNotExist"]_vars

\* C13 (as claimed): requests share no file.  An upload that has yet to read
\* its temporary file finds it on disk with the content that upload wrote,
\* and an unlink a request has issued removes a file that request wrote;
\* no other request has overwritten or deleted it, also when two uploads of
\* one original name arrive in one clock millisecond.
C13_OwnTempFileOnly ==
  \A i \in Ix :
    reqs[i].kind = "upload" =>
      /\ reqs[i].pc = "extract" =>
           /\ reqs[i].path \in DOMAIN disk
           /\ disk[reqs[i].path].writer = i
      /\ ( /\ reqs[i].unlinked /\ reqs[i].path \in unlinking
           /\ reqs[i].path \in DOMAIN disk )
           => disk[reqs[i].path].writer = i

\* Uploads that were given a namespace id.
Ingests == {i \in Ix : reqs[i].kind = "upload" /\ reqs[i].documentId # NoDoc}

\* C14: no two ingests are given the same namespace id, and every namespace
\* that holds segments holds the leading segments of the one document whose
\* ingest was given that id, in order, and nothing else.
C14_OneDocumentPerNamespace ==
  /\ \A i, j \in Ingests : i # j => reqs[i].documentId # reqs[j].documentId
  /\ \A d \in DocIds :
       store[d] # <<>> =>
         \E i \in Ingests :
           /\ reqs[i].documentId = d
           /\ Len(store[d]) <= Len(reqs[i].docs)
           /\ store[d] = SubSeq(reqs[i].docs, 1, Len(store[d]))

\* C14 witness: two ingests have both written segments to the store.
C14_Witness ==
  \E i, j \in Ingests :
    /\ i # j
    /\ Namespace(reqs[i].documentId) # <<>>
    /\ Namespace(reqs[j].documentId) # <<>>

C16_EmbeddingIntent ==
  \A i \in Ix :
    \A c \in 1..Len(reqs[i].calls) :
      LET call == reqs[i].calls[c]
      IN  /\ call.api = "embedDocuments" => call.taskType = "RETRIEVAL_DOCUMENT"
          /\ call.api = "embedQuery" => call.taskType = "RETRIEVAL_QUERY"

\* A successful upload response the client has handled.
ReturnedToClient(u) ==
  /\ reqs[u].from = "client" /\ reqs[u].kind = "upload"
  /\ reqs[u].pc = "closed" /\ Status(reqs[u]) = 200
  /\ Body(reqs[u]).documentId # NoDoc

C17_Inv ==
  /\ \A i \in Ix :
       ( /\ reqs[i].from = "client" /\ reqs[i].kind = "chat"
         /\ reqs[i].documentId # NoDoc )
         => \E u \in 1..(i - 1) :
              /\ ReturnedToClient(u)
              /\ Body(reqs[u]).documentId = reqs[i].documentId
  /\ activeDocument # NoDoc =>
       \E u \in Ix :
         /\ ReturnedToClient(u)
         /\ activeDocument = <<Body(reqs[u]).documentId, Body(reqs[u]).originalName>>

C17_Step ==
  /\ activeDocument' # activeDocument =>
       \/ \E i \in Ix :
            /\ reqs[i].from = "client" /\ reqs[i].kind = "upload"
            /\ reqs[i].pc = "done" /\ reqs'[i].pc = "closed"
            /\ Status(reqs[i]) = 200
            /\ activeDocument' = <<Body(reqs[i]).documentId,
                                    Body(reqs[i]).originalName>>
       \/ /\ activeDocument' = NoDoc
          /\ reqs' = reqs
          /\ Len(messages') = Len(messages) + 1
          /\ messages'[Len(messages')].text = "modeSwitch"
  /\ ( /\ Len(reqs') = Len(reqs) + 1
       /\ reqs'[Len(reqs')].from = "client"
       /\ reqs'[Len(reqs')].kind = "chat" )
       => reqs'[Len(reqs')].documentId =
            IF activeDocument # NoDoc THEN activeDocument[1] ELSE NoDoc

\* C17: the client's Active Document changes only when a successful upload
\* response is handled (to that response's id and name) and on Clear (to
\* none); a failed upload and every step of a chat turn leave it as it was.
\* A documentId the client sends in a chat request is the Active Document's
\* id at the moment of sending, and was returned to this client by a
\* successful ingest before.
C17_ActiveDocumentFrame == []C17_Inv /\ [][C17_Step]_vars

\* C17 witness: after a successful upload was handled, the client has sent
\* a chat request carrying that upload's documentId.
C17_Witness ==
  \E i, u \in Ix :
    /\ u < i /\ ReturnedToClient(u)
    /\ reqs[i].from = "client" /\ reqs[i].kind = "chat"
    /\ reqs[i].documentId = Body(reqs[u]).documentId

====
